---- MODULE Spec2Model ----
(***************************************************************************)
(* Concentration (memory match) game with a leaderboard service.           *)
(*                                                                         *)
(*   src/src/App.tsx      the React client: deck generation, the game      *)
(*                        state machine, the local leaderboard cache       *)
(*   src/server/index.js  the HTTP leaderboard service                     *)
(*   src/server/db.js     its scores table                                 *)
(*                                                                         *)
(* React semantics the client model follows (React 18, the version the     *)
(* Vite react-ts template named in App.tsx ships):                         *)
(*   - every setState call of one handler or timer callback is applied     *)
(*     in one batch, then the component renders once;                      *)
(*   - a handler created in a render reads the state of THAT render: the   *)
(*     click handlers are re-created in every render, the keydown          *)
(*     listener only when `deck` or `focusedIndex` change (the dependency  *)
(*     list of its effect), and a setTimeout callback keeps the variables  *)
(*     of the handleFlip call that scheduled it;                           *)
(*   - setX(v => f(v)) is applied to the current state, setX(v) is not.    *)
(***************************************************************************)
EXTENDS Integers, Sequences, FiniteSets, TLC

VARIABLES
    \* ---- App component state (App.tsx 97-111)
    difficulty,     \* useState<Difficulty>
    pairs,          \* useState(12)
    deck,           \* useState<Card[]>
    flipped,        \* useState<string[]>
    moves,
    matches,
    seconds,
    running,
    locked,
    focusedIndex,   \* <<>> is null, <<i>> is the 0-based index i
    \* ---- the JavaScript runtime around the component
    timers,         \* pending setTimeout callbacks, in scheduling order
    kb,             \* the render state the registered keydown listener closes over
    \* ---- history of the session, for stating the properties
    recorded,       \* the Scores built since the last restart
    fresh,          \* TRUE from a restart until handleFlip is next called
    \* ---- the leaderboard service (server/index.js, server/db.js)
    table,          \* rows of the scores table, in rowid order
    now,            \* the server clock, milliseconds since 1970-01-01T00:00Z
    resp,           \* the last HTTP response
    \* ---- the browser's localStorage entry STORAGE_KEY and the last call's outcome
    storage,
    out,
    \* ---- generateDeck as a function: its argument and its result
    genPairs,
    genDeck,
    \* ---- the Score Recorder: what completion leaves behind (App.tsx 69-94, 178-186)
    leaderboard,    \* useState<Score[]>: the leaderboard on display
    submit,         \* the fetch of saveScoreRemote: its state and its Score
    fetch           \* the fetch of loadLeaderboardRemote: its state and its answer

gameVars   == <<difficulty, pairs, deck, flipped, moves, matches, seconds, running,
                locked, focusedIndex, timers, kb, recorded, fresh>>
serverVars == <<table, now, resp>>
cacheVars  == <<storage, out>>
genVars    == <<genPairs, genDeck>>
recVars    == <<leaderboard, submit, fetch>>
vars       == <<gameVars, serverVars, cacheVars, genVars, recVars>>

----------------------------------------------------------------------------
(* Bounds of the model *)

MaxMoves   == 2   \* second flips per session
MaxSeconds == 1   \* interval ticks per session
MaxTimers  == 2   \* setTimeout callbacks pending at once
PoolSize   == 2   \* symbols in the pool (28 in the source)
MaxRows    == 2   \* rows of the scores table
MaxDays    == 1   \* whole days the server clock advances
MaxMs      == 1   \* milliseconds past midnight the server clock takes
MaxText    == 3   \* tokens of a text found in localStorage at start
MaxItems   == 2   \* items of a stored array that is not all Scores
MaxStarMoves == 40  \* moves the star rating is computed for
MaxStarPairs == 18  \* pair counts the star rating is computed for
MaxSessions  == 2   \* sessions completed in one run of the Score Recorder

----------------------------------------------------------------------------
(* Arrays: a JavaScript array is a sequence, index i at position i + 1 *)

At(a, i) == a[i + 1]

Swap(a, i, j) == [a EXCEPT ![i + 1] = a[j + 1], ![j + 1] = a[i + 1]]

Slice(a, n) == SubSeq(a, 1, IF n < Len(a) THEN n ELSE Len(a))

(* The values Math.floor(Math.random() * (i + 1)) takes in one run of shuffle
   on n elements: one j in 0..i for every i in 1..n-1. *)
RECURSIVE PickSeqs(_)
PickSeqs(n) ==
    IF n <= 1 THEN {<<>>}
    ELSE {Append(p, j) : p \in PickSeqs(n - 1), j \in 0 .. (n - 1)}

(* shuffle: for (i = a.length - 1; i > 0; i--) swap a[i], a[j] *)
RECURSIVE ShuffleFrom(_, _, _)
ShuffleFrom(a, i, picks) ==
    IF i <= 0 THEN a
    ELSE ShuffleFrom(Swap(a, i, picks[i]), i - 1, picks)

shuffle(arr, picks) == ShuffleFrom(arr, Len(arr) - 1, picks)

----------------------------------------------------------------------------
(* generateDeck *)

EMOJI_POOL == [k \in 1 .. PoolSize |-> <<"e", k>>]

(* String(idx): the decimal digits of idx, as in the template `p${idx}` *)
DigitChar(d) == <<"0", "1", "2", "3", "4", "5", "6", "7", "8", "9">>[d + 1]

RECURSIVE Digits(_)
Digits(n) == IF n < 10 THEN <<DigitChar(n)>> ELSE Append(Digits(n \div 10), DigitChar(n % 10))

PairIdOf(idx) == <<"p">> \o Digits(idx)

CardsOfOneId(emoji, idx) ==
    << [id |-> Append(PairIdOf(idx), "a"), pairId |-> PairIdOf(idx), content |-> emoji, matched |-> FALSE],
       [id |-> Append(PairIdOf(idx), "a"), pairId |-> PairIdOf(idx), content |-> emoji, matched |-> FALSE] >>

CardsOf(emoji, idx) ==
    << [id |-> Append(PairIdOf(idx), "a"), pairId |-> PairIdOf(idx), content |-> emoji, matched |-> FALSE],
       [id |-> Append(PairIdOf(idx), "b"), pairId |-> PairIdOf(idx), content |-> emoji, matched |-> FALSE] >>

(* pool.flatMap((emoji, idx) => [a, b]), from index idx on *)
RECURSIVE FlatMapCards(_, _)
FlatMapCards(pool, idx) ==
    IF idx >= Len(pool) THEN <<>>
    ELSE CardsOf(At(pool, idx), idx) \o FlatMapCards(pool, idx + 1)

generateDeck(p, poolPicks, deckPicks) ==
    LET pool == Slice(shuffle(EMOJI_POOL, poolPicks), p)
    IN  shuffle(FlatMapCards(pool, 0), deckPicks)

(* the decks generateDeck(p) can return *)
Decks(p) ==
    LET n == IF p < PoolSize THEN p ELSE PoolSize
    IN  {generateDeck(p, pp, dp) : pp \in PickSeqs(PoolSize), dp \in PickSeqs(2 * n)}

(* Two runs of Math.random the game model draws its decks from: every call
   returns a value near 0 (j = 0), or every call a value near 1 (j = i). *)
LowPicks(n)  == [i \in 1 .. (n - 1) |-> 0]
HighPicks(n) == [i \in 1 .. (n - 1) |-> i]

GameDecks(p) ==
    { generateDeck(p, LowPicks(PoolSize), LowPicks(2 * p)),
      generateDeck(p, HighPicks(PoolSize), HighPicks(2 * p)) }

----------------------------------------------------------------------------
(* The game *)

Difficulty == {"easy", "medium"}

(* const map = { easy: 8, medium: 12, hard: 18 }, scaled to the pool *)
PairsOf(d) == IF d = "easy" THEN PoolSize - 1 ELSE PoolSize

Null == <<>>

FindIndex(d, cardId) == CHOOSE i \in 0 .. (Len(d) - 1) : At(d, i).id = cardId

HasCard(d, cardId) == \E i \in 0 .. (Len(d) - 1) : At(d, i).id = cardId

Find(d, cardId) == At(d, FindIndex(d, cardId))

Includes(a, x) == \E i \in 1 .. Len(a) : a[i] = x

allMatched(d) == \A i \in 1 .. Len(d) : d[i].matched

(* moves / pairs, a double: held as the exact fraction. For the counts of this
   model the quotient of the doubles is the double nearest to the fraction
   and 1.2 the double nearest to 12/10, so `ratio <= 1.2` is decided by the
   fractions (two different fractions here differ by far more than 2^-52). *)
Ratio(m, p) == <<m, p>>

RatioLeq(r, num, den) == r[1] * den <= num * r[2]

starsStrict(m, p) ==
    IF m = 0 THEN 3
    ELSE IF RatioLeq(Ratio(m, p), 12, 10) THEN 3
    ELSE IF ~RatioLeq(<<2, 1>>, m, p) THEN 2
    ELSE 1

(* const stars = useMemo(() => ..., [moves, pairs]) *)
stars(m, p) ==
    IF m = 0 THEN 3
    ELSE IF RatioLeq(Ratio(m, p), 12, 10) THEN 3
    ELSE IF RatioLeq(Ratio(m, p), 2, 1) THEN 2
    ELSE 1

(* const s: Score = { name: name || 'Player', seconds, moves: moves+1, difficulty, date } *)
ScoreOf(sec, mov, diff) ==
    [name |-> "Player", seconds |-> sec, moves |-> mov + 1, difficulty |-> diff]

(* What a handleFlip created in a render reads of that render's state: locked,
   flipped and running, and, through the timeout callback it may schedule,
   matches, pairs, seconds, moves and difficulty. The callback uses those five
   for one thing: when matches + 1 === pairs it records the Score built from
   them. `score` holds that Score, or nothing when matches + 1 # pairs. *)
Closure(lck, flp, run, mat, prs, sec, mov, diff) ==
    [locked |-> lck, flipped |-> flp, running |-> run,
     score |-> IF mat + 1 = prs THEN <<ScoreOf(sec, mov, diff)>> ELSE <<>>]

(* the current render *)
Render == Closure(locked, flipped, running, matches, pairs, seconds, moves, difficulty)

(* the effect with dependencies [deck, focusedIndex] registers the listener of
   the new render when one of them changed *)
KbAfter(deckSet) ==
    kb' = IF deckSet \/ focusedIndex' # focusedIndex
          THEN Closure(locked', flipped', running', matches', pairs', seconds', moves', difficulty')
          ELSE kb

(* A pending setTimeout callback of a handleFlip with closure c: a match
   callback marks the pair of `card`; a mismatch callback reads nothing. *)
Timer(kind, card, c) ==
    IF kind = "match"
    THEN [kind |-> kind, pairId |-> card.pairId, score |-> c.score]
    ELSE [kind |-> kind, pairId |-> <<>>, score |-> <<>>]

(* handleFlip(cardId) run by a handler that reads the render state c *)
handleFlip(cardId, c) ==
    /\ fresh' = FALSE
    /\ UNCHANGED <<difficulty, pairs, deck, matches, seconds, recorded>>
    /\ IF c.locked \/ ~HasCard(deck, cardId) \/ Find(deck, cardId).matched
       THEN UNCHANGED <<flipped, moves, running, locked, focusedIndex, timers>>
       ELSE /\ running' = IF ~c.running THEN TRUE ELSE running
            /\ IF Includes(c.flipped, cardId)
               THEN UNCHANGED <<flipped, moves, locked, focusedIndex, timers>>
               ELSE IF Len(c.flipped) = 0
               THEN /\ flipped' = <<cardId>>
                    /\ focusedIndex' = <<FindIndex(deck, cardId)>>
                    /\ UNCHANGED <<moves, locked, timers>>
               ELSE IF Len(c.flipped) = 1
               THEN /\ moves < MaxMoves
                    /\ Len(timers) < MaxTimers
                    /\ flipped' = <<c.flipped[1], cardId>>
                    /\ locked' = TRUE
                    /\ moves' = moves + 1
                    /\ timers' = Append(timers,
                          Timer(IF Find(deck, c.flipped[1]).pairId = Find(deck, cardId).pairId
                                THEN "match" ELSE "mismatch",
                                Find(deck, cardId), c))
                    /\ UNCHANGED focusedIndex
               ELSE UNCHANGED <<flipped, moves, locked, focusedIndex, timers>>
    /\ KbAfter(FALSE)

(* onClick={() => handleFlip(card.id)} of the card button at index i *)
ClickCard(i) ==
    /\ i \in 0 .. (Len(deck) - 1)
    /\ handleFlip(At(deck, i).id, Render)
    /\ UNCHANGED <<serverVars, cacheVars, genVars, recVars>>

(* onKey, Enter or space *)
KeyEnter ==
    /\ focusedIndex # Null
    /\ handleFlip(At(deck, focusedIndex[1]).id, kb)
    /\ UNCHANGED <<serverVars, cacheVars, genVars, recVars>>

(* onKey, ArrowRight or ArrowDown (step = 1), ArrowLeft or ArrowUp (step = -1) *)
KeyArrow(step) ==
    /\ Len(deck) # 0
    /\ focusedIndex' = IF focusedIndex = Null THEN <<0>>
                       ELSE <<(focusedIndex[1] + step + Len(deck)) % Len(deck)>>
    /\ UNCHANGED <<difficulty, pairs, deck, flipped, moves, matches, seconds, running,
                   locked, timers, recorded, fresh>>
    /\ KbAfter(FALSE)
    /\ UNCHANGED <<serverVars, cacheVars, genVars, recVars>>

restart(p) ==
    /\ deck' \in GameDecks(p)
    /\ flipped' = <<>>
    /\ moves' = 0
    /\ matches' = 0
    /\ seconds' = 0
    /\ running' = FALSE
    /\ locked' = FALSE
    /\ focusedIndex' = Null
    /\ recorded' = <<>>
    /\ fresh' = TRUE
    /\ UNCHANGED timers
    /\ KbAfter(TRUE)

(* the Restart button *)
ClickRestart ==
    /\ UNCHANGED <<difficulty, pairs>>
    /\ restart(pairs)
    /\ UNCHANGED <<serverVars, cacheVars, genVars, recVars>>

(* the difficulty select, and the effect that follows its render *)
SelectDifficulty(d) ==
    /\ d # difficulty
    /\ difficulty' = d
    /\ pairs' = PairsOf(d)
    /\ restart(PairsOf(d))
    /\ UNCHANGED <<serverVars, cacheVars, genVars, recVars>>

(* the Start/Pause button: setRunning(r => !r); if (!running) setRunning(true) *)
ClickStartPause ==
    /\ running' = IF ~running THEN TRUE ELSE ~running
    /\ UNCHANGED <<difficulty, pairs, deck, flipped, moves, matches, seconds, locked,
                   focusedIndex, timers, recorded, fresh>>
    /\ KbAfter(FALSE)
    /\ UNCHANGED <<serverVars, cacheVars, genVars, recVars>>

(* the interval of the timer effect, which exists while running *)
Tick ==
    /\ running
    /\ seconds < MaxSeconds
    /\ seconds' = seconds + 1
    /\ UNCHANGED <<difficulty, pairs, deck, flipped, moves, matches, running, locked,
                   focusedIndex, timers, recorded, fresh>>
    /\ KbAfter(FALSE)
    /\ UNCHANGED <<serverVars, cacheVars, genVars, recVars>>

Remove(s, k) == SubSeq(s, 1, k - 1) \o SubSeq(s, k + 1, Len(s))

(* setTimeout: a callback runs when its delay has passed. The match delay is
   600 ms and the mismatch delay 800 ms, so of two pending callbacks the one
   scheduled later runs first only if it is a match and the other a mismatch. *)
Due(k) ==
    /\ k \in 1 .. Len(timers)
    /\ \A j \in 1 .. (k - 1) : timers[j].kind = "mismatch" /\ timers[k].kind = "match"

MarkMatched(d, pairId) ==
    [i \in 1 .. Len(d) |-> IF d[i].pairId = pairId THEN [d[i] EXCEPT !.matched = TRUE] ELSE d[i]]

(* the callback of the 600 ms timeout *)
MatchTimeout(k) ==
    /\ Due(k)
    /\ timers[k].kind = "match"
    /\ timers' = Remove(timers, k)
    /\ deck' = MarkMatched(deck, timers[k].pairId)
    /\ flipped' = <<>>
    /\ matches' = matches + 1
    /\ locked' = FALSE
    /\ IF timers[k].score # <<>>
       THEN /\ running' = FALSE
            /\ recorded' = recorded \o timers[k].score
       ELSE UNCHANGED <<running, recorded>>
    /\ UNCHANGED <<difficulty, pairs, moves, seconds, focusedIndex, fresh>>
    /\ KbAfter(TRUE)
    /\ UNCHANGED <<serverVars, cacheVars, genVars, recVars>>

MismatchTimeoutPauses(k) ==
    /\ Due(k)
    /\ timers[k].kind = "mismatch"
    /\ timers' = Remove(timers, k)
    /\ flipped' = <<>>
    /\ locked' = FALSE
    /\ running' = FALSE
    /\ UNCHANGED <<difficulty, pairs, deck, moves, matches, seconds,
                   focusedIndex, recorded, fresh>>
    /\ KbAfter(FALSE)
    /\ UNCHANGED <<serverVars, cacheVars, genVars, recVars>>

(* the callback of the 800 ms timeout *)
MismatchTimeout(k) ==
    /\ Due(k)
    /\ timers[k].kind = "mismatch"
    /\ timers' = Remove(timers, k)
    /\ flipped' = <<>>
    /\ locked' = FALSE
    /\ UNCHANGED <<difficulty, pairs, deck, moves, matches, seconds, running,
                   focusedIndex, recorded, fresh>>
    /\ KbAfter(FALSE)
    /\ UNCHANGED <<serverVars, cacheVars, genVars, recVars>>

----------------------------------------------------------------------------
(* Idle values of the parts a specification does not use *)

ServerIdle == table = <<>> /\ now = 0 /\ resp = <<>>
CacheIdle  == storage = [present |-> FALSE, text |-> <<>>] /\ out = <<>>
GenIdle    == genPairs = 0 /\ genDeck = <<>>
RecIdle    == leaderboard = <<>> /\ submit = <<>> /\ fetch = <<>>

(* After mount: useState initial values, then the [difficulty] effect has run
   restart(map['medium']). *)
Init ==
    /\ difficulty = "medium"
    /\ pairs = PairsOf("medium")
    /\ deck \in GameDecks(PairsOf("medium"))
    /\ flipped = <<>>
    /\ moves = 0
    /\ matches = 0
    /\ seconds = 0
    /\ running = FALSE
    /\ locked = FALSE
    /\ focusedIndex = Null
    /\ timers = <<>>
    /\ kb = Render
    /\ recorded = <<>>
    /\ fresh = TRUE
    /\ ServerIdle /\ CacheIdle /\ GenIdle /\ RecIdle

Next ==
    \/ \E i \in 0 .. (2 * PoolSize - 1) : ClickCard(i)
    \/ KeyEnter
    \/ \E step \in {-1, 1} : KeyArrow(step)
    \/ ClickRestart
    \/ \E d \in Difficulty : SelectDifficulty(d)
    \/ ClickStartPause
    \/ Tick
    \/ \E k \in 1 .. MaxTimers : MatchTimeout(k)
    \/ \E k \in 1 .. MaxTimers : MismatchTimeout(k)

Spec == Init /\ [][Next]_vars

----------------------------------------------------------------------------
(* The leaderboard service: server/index.js on the table of server/db.js *)

(* JavaScript values of a request: t is the typeof tag ("undefined", "string",
   "number", "object"), s the value of a string, n the value of a number *)
Undefined == [t |-> "undefined", s |-> "", n |-> 0]
Str(x)    == [t |-> "string", s |-> x, n |-> 0]
Num(x)    == [t |-> "number", s |-> "", n |-> x]
Obj       == [t |-> "object", s |-> "", n |-> 0]
NaN       == [t |-> "number", s |-> "NaN", n |-> 0]

(* ToBoolean *)
Truthy(x) ==
    CASE x.t = "undefined" -> FALSE
      [] x.t = "string"    -> x.s # ""
      [] x.t = "number"    -> x.s # "NaN" /\ x.n # 0
      [] OTHER             -> TRUE

SecondsMax == 86400
MovesMax   == 10000
DefaultLimit == 20

SecMs  == 1000
MinMs  == 60 * SecMs
HourMs == 60 * MinMs
DayMs  == 24 * HourMs

(* Date.prototype.toISOString for the instants of 1970: the text
   YYYY-MM-DDTHH:mm:ss.sssZ, held as its seven fixed-width fields (the model's
   clock stays within January: TLC's integers end at 2^31 ms, 24.8 days) *)
MonthLengths == <<31, 28, 31, 30, 31, 30, 31, 31, 30, 31, 30, 31>>

RECURSIVE MonthDay(_, _)
MonthDay(dayOfYear, m) ==
    IF dayOfYear < MonthLengths[m] THEN <<m, dayOfYear + 1>>
    ELSE MonthDay(dayOfYear - MonthLengths[m], m + 1)

toISOString(ms) ==
    LET md == MonthDay(ms \div DayMs, 1)
    IN  <<1970, md[1], md[2], (ms % DayMs) \div HourMs, (ms % HourMs) \div MinMs,
          (ms % MinMs) \div SecMs, ms % SecMs>>

(* SQLite's >= on two TEXT values of this format: field by field, the first
   difference decides *)
RECURSIVE TextGeqFrom(_, _, _)
TextGeqFrom(a, b, k) ==
    IF k > Len(a) THEN TRUE
    ELSE IF a[k] # b[k] THEN a[k] > b[k]
    ELSE TextGeqFrom(a, b, k + 1)

TextGeq(a, b) == TextGeqFrom(a, b, 1)

(* the query strings and request bodies the model sends *)
ValidPayloads ==
    [name : {Str("Ann")}, seconds : {Num(0), Num(SecondsMax)}, moves : {Num(0), Num(MovesMax)},
     difficulty : {Str("easy"), Str("medium")}]

BasePayload == [name |-> Str("Ann"), seconds |-> Num(0), moves |-> Num(0), difficulty |-> Str("easy")]

(* the valid payloads, a valid payload with one field missing, of the wrong
   type or out of range, and the empty body (`req.body || {}`) *)
Payloads ==
    ValidPayloads
    \cup {[BasePayload EXCEPT !.name = x] : x \in {Undefined, Str(""), Obj}}
    \cup {[BasePayload EXCEPT !.seconds = x] : x \in {Undefined, Str("5"), Num(-1), Num(SecondsMax + 1)}}
    \cup {[BasePayload EXCEPT !.moves = x] : x \in {Undefined, Str("5"), Num(-1), Num(MovesMax + 1)}}
    \cup {[BasePayload EXCEPT !.difficulty = x] : x \in {Undefined, Str("")}}
    \cup {[name |-> Undefined, seconds |-> Undefined, moves |-> Undefined, difficulty |-> Undefined]}

QueryDifficulties == {Undefined, Str(""), Str("easy"), Str("medium")}
QueryLimits       == {<<>>, <<"0">>, <<"1">>, <<"-", "1">>, <<"1", "x">>}

(* better-sqlite3 binds strings and numbers, and throws a TypeError on an object *)
Bindable(x) == x.t \in {"string", "number"}

(* if (!name || typeof seconds !== 'number' || typeof moves !== 'number' || !difficulty) *)
InvalidPayload(b) ==
    ~Truthy(b.name) \/ b.seconds.t # "number" \/ b.moves.t # "number" \/ ~Truthy(b.difficulty)

InvalidValuesNoLowerBound(b) == b.seconds.n > SecondsMax \/ b.moves.n > MovesMax

(* if (seconds < 0 || seconds > 86400 || moves < 0 || moves > 10000) *)
InvalidValues(b) ==
    b.seconds.n < 0 \/ b.seconds.n > SecondsMax \/ b.moves.n < 0 \/ b.moves.n > MovesMax

(* app.post('/api/scores'): the handler *)
PostHandler(b) ==
    /\ IF InvalidPayload(b)
       THEN /\ resp' = [kind |-> "post", status |-> 400, rows |-> <<>>, query |-> <<>>]
            /\ UNCHANGED table
       ELSE IF InvalidValues(b)
       THEN /\ resp' = [kind |-> "post", status |-> 400, rows |-> <<>>, query |-> <<>>]
            /\ UNCHANGED table
       ELSE IF ~Bindable(b.name) \/ ~Bindable(b.difficulty)
       THEN /\ resp' = [kind |-> "post", status |-> 500, rows |-> <<>>, query |-> <<>>]
            /\ UNCHANGED table
       ELSE /\ Len(table) < MaxRows
            /\ LET row == [name |-> b.name.s, seconds |-> b.seconds.n, moves |-> b.moves.n,
                           difficulty |-> b.difficulty.s, created_at |-> toISOString(now)]
               IN  /\ table' = Append(table, row)
                   /\ resp' = [kind |-> "post", status |-> 200, rows |-> <<row>>, query |-> <<>>]
    /\ UNCHANGED now

(* a POST /api/scores request *)
PostScores(b) ==
    /\ PostHandler(b)
    /\ UNCHANGED <<gameVars, cacheVars, genVars, recVars>>

(* parseInt on a query parameter: an optional sign, then the leading digits *)
IsDigit(c) == c \in {"0", "1", "2", "3", "4", "5", "6", "7", "8", "9"}

DigitValue(c) == CHOOSE d \in 0 .. 9 : DigitChar(d) = c

RECURSIVE LeadingDigits(_)
LeadingDigits(str) ==
    IF str = <<>> \/ ~IsDigit(Head(str)) THEN <<>>
    ELSE <<Head(str)>> \o LeadingDigits(Tail(str))

RECURSIVE DigitsValue(_)
DigitsValue(ds) ==
    IF ds = <<>> THEN 0
    ELSE 10 * DigitsValue(SubSeq(ds, 1, Len(ds) - 1)) + DigitValue(ds[Len(ds)])

parseInt(str) ==
    LET neg  == str # <<>> /\ Head(str) = "-"
        rest == IF neg THEN Tail(str) ELSE str
        ds   == LeadingDigits(rest)
    IN  IF ds = <<>> THEN NaN
        ELSE Num(IF neg THEN 0 - DigitsValue(ds) ELSE DigitsValue(ds))

(* const limit = parseInt(req.query.limit) || 20 *)
LimitOf(str) == IF Truthy(parseInt(str)) THEN parseInt(str).n ELSE DefaultLimit

SinceTwoDays(t) == toISOString(t - 48 * 60 * 60 * 1000)

(* const since = new Date(Date.now() - 24 * 60 * 60 * 1000).toISOString() *)
Since(t) == toISOString(t - 24 * 60 * 60 * 1000)

(* WHERE [difficulty = ? AND] created_at >= ?, in rowid order *)
RECURSIVE Where(_, _, _)
Where(rows, diff, since) ==
    IF rows = <<>> THEN <<>>
    ELSE (IF (~Truthy(diff) \/ Head(rows).difficulty = diff.s) /\ TextGeq(Head(rows).created_at, since)
          THEN <<Head(rows)>> ELSE <<>>) \o Where(Tail(rows), diff, since)

(* ORDER BY seconds ASC, moves ASC *)
OrderLeq(r1, r2) == r1.seconds < r2.seconds \/ (r1.seconds = r2.seconds /\ r1.moves <= r2.moves)

IsOrdered(rows) == \A i \in 1 .. (Len(rows) - 1) : OrderLeq(rows[i], rows[i + 1])

RowOrders(rows) ==
    {[i \in 1 .. Len(rows) |-> rows[f[i]]] :
        f \in {g \in [1 .. Len(rows) -> 1 .. Len(rows)] : \A i, j \in 1 .. Len(rows) : i # j => g[i] # g[j]}}

(* the orders SQLite may return: rows equal in both keys come in any order *)
OrderBy(rows) == {r \in RowOrders(rows) : IsOrdered(r)}

(* LIMIT ?: a negative limit is no limit *)
Limit(rows, n) == IF n < 0 \/ n >= Len(rows) THEN rows ELSE SubSeq(rows, 1, n)

(* app.get('/api/leaderboard'): the handler *)
GetHandler(diff, limitStr) ==
    /\ \E sorted \in OrderBy(Where(table, diff, Since(now))) :
          resp' = [kind |-> "get", status |-> 200, rows |-> Limit(sorted, LimitOf(limitStr)),
                   query |-> <<diff, limitStr>>]
    /\ UNCHANGED <<table, now>>

(* a GET /api/leaderboard request *)
GetLeaderboard(diff, limitStr) ==
    /\ GetHandler(diff, limitStr)
    /\ UNCHANGED <<gameVars, cacheVars, genVars, recVars>>

(* the server clock *)
ServerStart == DayMs

ClockAdvance(d) ==
    /\ now + d <= ServerStart + MaxDays * DayMs + MaxMs
    /\ (now + d) % DayMs <= MaxMs
    /\ now' = now + d
    /\ UNCHANGED <<table, resp>>
    /\ UNCHANGED <<gameVars, cacheVars, genVars, recVars>>

GameIdle ==
    /\ difficulty = "medium" /\ pairs = 0 /\ deck = <<>> /\ flipped = <<>>
    /\ moves = 0 /\ matches = 0 /\ seconds = 0 /\ running = FALSE /\ locked = FALSE
    /\ focusedIndex = Null /\ timers = <<>> /\ kb = <<>> /\ recorded = <<>> /\ fresh = FALSE

ServerInit ==
    /\ table = <<>>
    /\ now = ServerStart
    /\ resp = [kind |-> "none", status |-> 0, rows |-> <<>>, query |-> <<>>]
    /\ GameIdle /\ CacheIdle /\ GenIdle /\ RecIdle

ServerNext ==
    \/ \E b \in Payloads : PostScores(b)
    \/ \E diff \in QueryDifficulties, limitStr \in QueryLimits : GetLeaderboard(diff, limitStr)
    \/ \E d \in {1, DayMs} : ClockAdvance(d)

ServerSpec == ServerInit /\ [][ServerNext]_vars

----------------------------------------------------------------------------
(* The local leaderboard cache: localStorage[STORAGE_KEY] (App.tsx 47-67) *)

LocalCap == 20

(* the Scores the model saves, the spec's ordering example *)
CacheScores ==
    << [name |-> "Player", seconds |-> 20, moves |-> 15, difficulty |-> "medium"],
       [name |-> "Player", seconds |-> 20, moves |-> 5, difficulty |-> "medium"],
       [name |-> "Player", seconds |-> 30, moves |-> 10, difficulty |-> "medium"] >>

(* A stored text is a sequence of JSON tokens: the brackets and the comma, the
   literals null and 5, the empty object {} and the text of a Score object. *)
ScoreTokens == <<"s1", "s2", "s3">>
Alphabet == {"[", "]", ",", "null", "5", "{}"} \cup {ScoreTokens[k] : k \in 1 .. Len(ScoreTokens)}

(* JavaScript values a JSON text denotes *)
JNull        == [t |-> "null", items |-> <<>>, score |-> <<>>]
JNumber      == [t |-> "number", items |-> <<>>, score |-> <<>>]
JObject      == [t |-> "object", items |-> <<>>, score |-> <<>>]
JScore(sc)   == [t |-> "score", items |-> <<>>, score |-> <<sc>>]
JArray(its)  == [t |-> "array", items |-> its, score |-> <<>>]

IsScalarToken(tok) == tok \in Alphabet \ {"[", "]", ","}

ScalarOf(tok) ==
    CASE tok = "null" -> JNull
      [] tok = "5"    -> JNumber
      [] tok = "{}"   -> JObject
      [] OTHER        -> JScore(CacheScores[CHOOSE k \in 1 .. Len(ScoreTokens) : ScoreTokens[k] = tok])

(* JSON.parse, by recursive descent: value := scalar | [ ] | [ value {, value} ] *)
ParseFail == [ok |-> FALSE, v |-> JNull, next |-> 0]

RECURSIVE ParseValue(_, _), ParseElements(_, _, _)
ParseValue(toks, i) ==
    IF i > Len(toks) THEN ParseFail
    ELSE IF IsScalarToken(toks[i]) THEN [ok |-> TRUE, v |-> ScalarOf(toks[i]), next |-> i + 1]
    ELSE IF toks[i] = "[" THEN
        IF i + 1 <= Len(toks) /\ toks[i + 1] = "]"
        THEN [ok |-> TRUE, v |-> JArray(<<>>), next |-> i + 2]
        ELSE ParseElements(toks, i + 1, <<>>)
    ELSE ParseFail

ParseElements(toks, i, acc) ==
    LET r == ParseValue(toks, i)
    IN  IF ~r.ok \/ r.next > Len(toks) THEN ParseFail
        ELSE IF toks[r.next] = "," THEN ParseElements(toks, r.next + 1, Append(acc, r.v))
        ELSE IF toks[r.next] = "]" THEN [ok |-> TRUE, v |-> JArray(Append(acc, r.v)), next |-> r.next + 1]
        ELSE ParseFail

(* JSON.parse(text): [threw, value] *)
JSONparse(text) ==
    LET r == ParseValue(text, 1)
    IN  IF r.ok /\ r.next = Len(text) + 1
        THEN [threw |-> FALSE, value |-> r.v]
        ELSE [threw |-> TRUE, value |-> JNull]

(* JSON.stringify *)
RECURSIVE JSONstringify(_), StringifyItems(_)
JSONstringify(v) ==
    CASE v.t = "null"   -> <<"null">>
      [] v.t = "number" -> <<"5">>
      [] v.t = "object" -> <<"{}">>
      [] v.t = "score"  -> <<ScoreTokens[CHOOSE k \in 1 .. Len(CacheScores) : CacheScores[k] = v.score[1]]>>
      [] OTHER          -> <<"[">> \o StringifyItems(v.items) \o <<"]">>

StringifyItems(its) ==
    IF its = <<>> THEN <<>>
    ELSE IF Len(its) = 1 THEN JSONstringify(its[1])
    ELSE JSONstringify(its[1]) \o <<",">> \o StringifyItems(Tail(its))

Absent == [present |-> FALSE, text |-> <<>>]
Stored(text) == [present |-> TRUE, text |-> text]

(* loadLeaderboard: [threw, value] *)
loadLeaderboard ==
    IF ~storage.present \/ storage.text = <<>>
    THEN [threw |-> FALSE, value |-> JArray(<<>>)]
    ELSE IF JSONparse(storage.text).threw
    THEN [threw |-> FALSE, value |-> JArray(<<>>)]
    ELSE [threw |-> FALSE, value |-> JSONparse(storage.text).value]

CompareBySeconds(a, b) == a.score[1].seconds <= b.score[1].seconds

(* board.sort((a, b) => a.seconds - b.seconds || a.moves - b.moves) *)
CompareLeq(a, b) ==
    a.score[1].seconds < b.score[1].seconds
        \/ (a.score[1].seconds = b.score[1].seconds /\ a.score[1].moves <= b.score[1].moves)

(* Array.prototype.sort is stable: x goes after the elements not greater than it *)
RECURSIVE InsertSorted(_, _)
InsertSorted(sorted, x) ==
    IF sorted = <<>> THEN <<x>>
    ELSE IF CompareLeq(sorted[Len(sorted)], x) THEN Append(sorted, x)
    ELSE Append(InsertSorted(SubSeq(sorted, 1, Len(sorted) - 1), x), sorted[Len(sorted)])

RECURSIVE StableSort(_)
StableSort(its) ==
    IF its = <<>> THEN <<>>
    ELSE InsertSorted(StableSort(SubSeq(its, 1, Len(its) - 1)), its[Len(its)])

AllScores(its) == \A k \in 1 .. Len(its) : its[k].t = "score"

(* The comparator reads a.seconds of both arguments: on null it throws a
   TypeError; on a number, {} or an array it yields NaN, the comparator is not
   consistent, and the order is implementation-defined. *)
SortThrows(its) == Len(its) >= 2 /\ \E k \in 1 .. Len(its) : its[k].t = "null"

SortOutcomes(its) ==
    IF AllScores(its) THEN {StableSort(its)}
    ELSE {[i \in 1 .. Len(its) |-> its[f[i]]] :
            f \in {g \in [1 .. Len(its) -> 1 .. Len(its)] : \A i, j \in 1 .. Len(its) : i # j => g[i] # g[j]}}

(* the Refresh button, the storage event and the initial useState: loadLeaderboard() *)
Load ==
    /\ out' = [op |-> "load", arg |-> <<>>, threw |-> loadLeaderboard.threw, value |-> loadLeaderboard.value]
    /\ UNCHANGED storage
    /\ UNCHANGED <<gameVars, serverVars, genVars, recVars>>

(* saveScoreLocal(score) *)
saveScoreLocal(sc) ==
    LET board == loadLeaderboard.value
    IN  IF board.t # "array" \/ SortThrows(Append(board.items, JScore(sc)))
        THEN /\ out' = [op |-> "save", arg |-> <<sc>>, threw |-> TRUE, value |-> JNull]
             /\ UNCHANGED storage
        ELSE /\ AllScores(board.items) \/ Len(board.items) < MaxItems
             /\ \E sorted \in SortOutcomes(Append(board.items, JScore(sc))) :
                   storage' = Stored(JSONstringify(JArray(Slice(sorted, LocalCap))))
             /\ out' = [op |-> "save", arg |-> <<sc>>, threw |-> FALSE, value |-> JNull]

Save(sc) ==
    /\ saveScoreLocal(sc)
    /\ UNCHANGED <<gameVars, serverVars, genVars, recVars>>

(* localStorage.removeItem(STORAGE_KEY) *)
removeItem ==
    /\ storage' = Absent
    /\ out' = [op |-> "clear", arg |-> <<>>, threw |-> FALSE, value |-> JNull]

(* the Clear Leaderboard button, on the cache *)
Clear ==
    /\ removeItem
    /\ UNCHANGED <<gameVars, serverVars, genVars, recVars>>

(* the texts of at most n tokens *)
RECURSIVE Texts(_)
Texts(n) ==
    IF n = 0 THEN {<<>>}
    ELSE Texts(n - 1) \cup {Append(t, tok) : t \in {u \in Texts(n - 1) : Len(u) = n - 1}, tok \in Alphabet}

(* localStorage outlives the page and is shared by the origin: the entry may
   be absent or hold any text *)
CacheInit ==
    /\ storage \in {Absent} \cup {Stored(t) : t \in Texts(MaxText)}
    /\ out = [op |-> "none", arg |-> <<>>, threw |-> FALSE, value |-> JNull]
    /\ GameIdle /\ ServerIdle /\ GenIdle /\ RecIdle

CacheNext ==
    \/ Load
    \/ \E k \in 1 .. Len(CacheScores) : Save(CacheScores[k])
    \/ Clear

CacheSpec == CacheInit /\ [][CacheNext]_vars

----------------------------------------------------------------------------
(* The Score Recorder: what the match callback does when it completes the
   session (App.tsx 178-185), with saveScoreRemote, loadLeaderboardRemote and
   the leaderboard service at the other end of the two requests.

   A request is "sent" until the server handles it, "served" while the
   response travels back, then "done"; a network error ends a sent or a
   served request as "failed". *)

NoRequest == [state |-> "none", score |-> <<>>, difficulty |-> "", rows |-> <<>>]

InFlight(r) == r.state \in {"sent", "served"}

(* body: JSON.stringify({ name, seconds, moves, difficulty }), as express.json reads it *)
PayloadOf(sc) ==
    [name |-> Str(sc.name), seconds |-> Num(sc.seconds), moves |-> Num(sc.moves),
     difficulty |-> Str(sc.difficulty)]

(* return data as Score[] *)
AsScores(rows) == JArray([i \in 1 .. Len(rows) |-> JScore(rows[i])])

(* the callback, up to its await: saveScoreRemote(s) sends the POST and
   returns a promise nobody awaits; saveScoreLocal(s); loadLeaderboardRemote
   sends the GET with the difficulty and limit = 20. If saveScoreLocal throws,
   the callback ends there. *)
Completed(sc) ==
    /\ Len(recorded) < MaxSessions
    /\ ~InFlight(submit) /\ ~InFlight(fetch)
    /\ recorded' = Append(recorded, sc)
    /\ submit' = [NoRequest EXCEPT !.state = "sent", !.score = <<sc>>]
    /\ saveScoreLocal(sc)
    /\ fetch' = IF out'.threw THEN NoRequest
                ELSE [NoRequest EXCEPT !.state = "sent", !.score = <<sc>>, !.difficulty = sc.difficulty]
    /\ UNCHANGED leaderboard
    /\ UNCHANGED <<difficulty, pairs, deck, flipped, moves, matches, seconds, running,
                   locked, focusedIndex, timers, kb, fresh>>
    /\ UNCHANGED <<serverVars, genVars>>

(* the service handles the POST *)
SubmitServed ==
    /\ submit.state = "sent"
    /\ PostHandler(PayloadOf(submit.score[1]))
    /\ submit' = [submit EXCEPT !.state = "served"]
    /\ UNCHANGED <<leaderboard, fetch>>
    /\ UNCHANGED <<gameVars, cacheVars, genVars>>

(* await fetch(...) of saveScoreRemote resolves: the response is not read *)
SubmitResolved ==
    /\ submit.state = "served"
    /\ submit' = [submit EXCEPT !.state = "done"]
    /\ UNCHANGED <<leaderboard, fetch>>
    /\ UNCHANGED <<gameVars, serverVars, cacheVars, genVars>>

(* await fetch(...) of saveScoreRemote rejects: catch (e) { saveScoreLocal(score) } *)
SubmitFailed ==
    /\ InFlight(submit)
    /\ submit' = [submit EXCEPT !.state = "failed"]
    /\ saveScoreLocal(submit.score[1])
    /\ UNCHANGED <<leaderboard, fetch>>
    /\ UNCHANGED <<gameVars, serverVars, genVars>>

(* the service handles the GET *)
FetchServed ==
    /\ fetch.state = "sent"
    /\ GetHandler(Str(fetch.difficulty), Digits(DefaultLimit))
    /\ fetch' = [fetch EXCEPT !.state = "served", !.rows = resp'.rows]
    /\ UNCHANGED <<leaderboard, submit>>
    /\ UNCHANGED <<gameVars, cacheVars, genVars>>

(* res.ok: setLeaderboard(await res.json()) *)
FetchResolved ==
    /\ fetch.state = "served"
    /\ fetch' = [fetch EXCEPT !.state = "done"]
    /\ leaderboard' = AsScores(fetch.rows)
    /\ UNCHANGED submit
    /\ UNCHANGED <<gameVars, serverVars, cacheVars, genVars>>

FetchFailedShowsNothing ==
    /\ InFlight(fetch)
    /\ fetch' = [fetch EXCEPT !.state = "failed"]
    /\ leaderboard' = JArray(<<>>)
    /\ UNCHANGED submit
    /\ UNCHANGED <<gameVars, serverVars, cacheVars, genVars>>

(* the fetch rejects (or the response is not ok: throw new Error('remote error')):
   catch (e) { return loadLeaderboard() }, then setLeaderboard *)
FetchFailed ==
    /\ InFlight(fetch)
    /\ fetch' = [fetch EXCEPT !.state = "failed"]
    /\ leaderboard' = loadLeaderboard.value
    /\ UNCHANGED submit
    /\ UNCHANGED <<gameVars, serverVars, cacheVars, genVars>>

(* the Clear Leaderboard button: removeItem, setLeaderboard([]) *)
ClearLeaderboard ==
    /\ removeItem
    /\ leaderboard' = JArray(<<>>)
    /\ UNCHANGED <<submit, fetch>>
    /\ UNCHANGED <<gameVars, serverVars, genVars>>

(* the Refresh button: setLeaderboard(loadLeaderboard()) *)
Refresh ==
    /\ leaderboard' = loadLeaderboard.value
    /\ UNCHANGED <<submit, fetch>>
    /\ UNCHANGED <<gameVars, serverVars, cacheVars, genVars>>

(* a cache of 20 Scores, all the best of CacheScores *)
FullCache == Stored(JSONstringify(JArray([i \in 1 .. LocalCap |-> JScore(CacheScores[2])])))

(* The caches the App mounts with: absent, 20 Scores, or an array holding an
   item that is no Score (the initial render fails on a value that is not an
   array or holds null). useState(() => loadLeaderboard()). *)
RecordInit ==
    /\ storage \in {Absent, FullCache, Stored(<<"[", "{}", "]">>)}
    /\ out = [op |-> "none", arg |-> <<>>, threw |-> FALSE, value |-> JNull]
    /\ leaderboard = loadLeaderboard.value
    /\ submit = NoRequest
    /\ fetch = NoRequest
    /\ table = <<>>
    /\ now = ServerStart
    /\ resp = [kind |-> "none", status |-> 0, rows |-> <<>>, query |-> <<>>]
    /\ GameIdle /\ GenIdle

RecordNext ==
    \/ \E k \in 1 .. Len(CacheScores) : Completed(CacheScores[k])
    \/ SubmitServed
    \/ SubmitResolved
    \/ SubmitFailed
    \/ FetchServed
    \/ FetchResolved
    \/ FetchFailed
    \/ ClearLeaderboard
    \/ Refresh

RecordSpec == RecordInit /\ [][RecordNext]_vars

----------------------------------------------------------------------------
(* Properties of the leaderboard service *)

(* the instant an ISO text of 1970 names *)
RECURSIVE DaysBefore(_)
DaysBefore(m) == IF m = 1 THEN 0 ELSE DaysBefore(m - 1) + MonthLengths[m - 1]

InstantOf(iso) ==
    (DaysBefore(iso[2]) + iso[3] - 1) * DayMs + iso[4] * HourMs + iso[5] * MinMs
        + iso[6] * SecMs + iso[7]

Count(x, seq) == Cardinality({i \in 1 .. Len(seq) : seq[i] = x})

RowsValid(t) ==
    \A i \in 1 .. Len(t) :
        /\ t[i].name # "" /\ t[i].difficulty # ""
        /\ t[i].seconds >= 0 /\ t[i].seconds <= 86400
        /\ t[i].moves >= 0 /\ t[i].moves <= 10000

(* what the claim calls an invalid payload *)
Rejectable(b) ==
    \/ b.name.t = "undefined" \/ b.difficulty.t = "undefined"
    \/ b.seconds.t # "number" \/ b.moves.t # "number"
    \/ b.seconds.n < 0 \/ b.seconds.n > 86400
    \/ b.moves.n < 0 \/ b.moves.n > 10000

(* and a valid one: non-empty strings and numbers in range *)
Acceptable(b) ==
    /\ b.name.t = "string" /\ b.name.s # ""
    /\ b.difficulty.t = "string" /\ b.difficulty.s # ""
    /\ ~Rejectable(b)

(* a step that is a GET /api/leaderboard with the query of the new response *)
GetStep == resp'.kind = "get" /\ GetLeaderboard(resp'.query[1], resp'.query[2])

(* C6: POST /api/scores answers an invalid payload (name or difficulty
   missing, seconds or moves not a number or out of [0, 86400], [0, 10000])
   with status 400 and leaves the table as it was; a valid payload appends
   exactly one row, holding the payload's values, after the unchanged old
   rows; and after every POST each stored row has a non-empty name and
   difficulty and seconds and moves within their ranges. *)
C6_PostValidation ==
    [][ \A b \in Payloads : PostScores(b) =>
          /\ Rejectable(b) => (resp'.status = 400 /\ table' = table)
          /\ Acceptable(b) =>
                /\ resp'.status = 200
                /\ Len(table') = Len(table) + 1
                /\ SubSeq(table', 1, Len(table)) = table
                /\ table'[Len(table')].name = b.name.s
                /\ table'[Len(table')].seconds = b.seconds.n
                /\ table'[Len(table')].moves = b.moves.n
                /\ table'[Len(table')].difficulty = b.difficulty.s
          /\ RowsValid(table') ]_vars

(* a POST was rejected while the table held a row *)
C6_Witness == resp.kind = "post" /\ resp.status = 400 /\ Len(table) >= 1

(* C7: every row GET /api/leaderboard returns is a stored row created at most
   24 hours before the query time and, when a difficulty is given, of that
   difficulty; and when the limit does not cut the result (no limit given,
   at most 20 qualifying rows) every such stored row is returned. *)
C7_LeaderboardWindow ==
    [][ GetStep =>
            LET diff == resp'.query[1]
                limitStr == resp'.query[2]
                Qualifies(r) ==
                    /\ now - InstantOf(r.created_at) <= 24 * 60 * 60 * 1000
                    /\ (diff.t = "string" /\ diff.s # "") => r.difficulty = diff.s
                qualifying == {i \in 1 .. Len(table) : Qualifies(table[i])}
            IN  /\ \A k \in 1 .. Len(resp'.rows) :
                      /\ Qualifies(resp'.rows[k])
                      /\ Count(resp'.rows[k], resp'.rows) <= Count(resp'.rows[k], table)
                /\ (limitStr = <<>> /\ Cardinality(qualifying) <= 20) =>
                      \A i \in qualifying : Count(table[i], resp'.rows) = Count(table[i], table) ]_vars

(* a query without difficulty and limit returned the newer of two stored rows
   and not the older one *)
C7_Witness ==
    /\ resp.kind = "get" /\ resp.query = <<Undefined, <<>>>>
    /\ Len(table) = 2 /\ table[1] # table[2]
    /\ resp.rows = <<table[2]>>

(* a limit parameter that is a decimal integer, and its value *)
IsCount(str) == str # <<>> /\ \A k \in 1 .. Len(str) : IsDigit(str[k])

(* C8: GET /api/leaderboard returns its rows ordered by seconds, then moves,
   ascending, and at most as many as the limit parameter asks for (at most 20
   when none is given): the first `limit` rows of the ordered qualifying rows. *)
C8_OrderAndLimit ==
    [][ GetStep =>
            LET diff == resp'.query[1]
                limitStr == resp'.query[2]
                asked == IF limitStr = <<>> THEN 20 ELSE DigitsValue(limitStr)
            IN  /\ IsOrdered(resp'.rows)
                /\ (limitStr = <<>> \/ IsCount(limitStr)) =>
                      /\ Len(resp'.rows) <= asked
                      /\ \E sorted \in OrderBy(Where(table, diff, Since(now))) :
                            resp'.rows = SubSeq(sorted, 1, IF asked < Len(sorted) THEN asked ELSE Len(sorted)) ]_vars

----------------------------------------------------------------------------
(* generateDeck as a function of the pair count *)

MaxGenPairs == PoolSize + 2

Generate(p) ==
    /\ genPairs' = p
    /\ genDeck' \in Decks(p)
    /\ UNCHANGED <<gameVars, serverVars, cacheVars, recVars>>

GenInit == GenIdle /\ GameIdle /\ ServerIdle /\ CacheIdle /\ RecIdle

GenNext == \E p \in 0 .. MaxGenPairs : Generate(p)

GenSpec == GenInit /\ [][GenNext]_vars

(* Properties of generateDeck *)

CardsWithPair(d, pid) == {i \in 1 .. Len(d) : d[i].pairId = pid}

DeckShape(d) ==
    /\ \A i, j \in 1 .. Len(d) : i # j => d[i].id # d[j].id
    /\ \A i \in 1 .. Len(d) : Cardinality(CardsWithPair(d, d[i].pairId)) = 2
    /\ \A i, j \in 1 .. Len(d) : d[i].pairId = d[j].pairId <=> d[i].content = d[j].content
    /\ \A i \in 1 .. Len(d) : ~d[i].matched

(* C10, as stated: generateDeck(P) has exactly 2P cards for every P, with
   distinct ids, every pair identity on exactly two cards, one symbol per
   pair and no symbol on two pairs, and every card unmatched. *)
C10_DeckOfAnyPairCount == Len(genDeck) = 2 * genPairs /\ DeckShape(genDeck)

(* C10, amended: generateDeck(P) has exactly 2 * min(P, pool size) cards, with
   distinct ids, every pair identity on exactly two cards, one symbol per
   pair and no symbol on two pairs, and every card unmatched. *)
C10_DeckClamped ==
    /\ Len(genDeck) = 2 * (IF genPairs < Len(EMOJI_POOL) THEN genPairs ELSE Len(EMOJI_POOL))
    /\ DeckShape(genDeck)

(* a full, shuffled deck: the first two cards are of different pairs *)
C10_Witness ==
    /\ genPairs = PoolSize /\ Len(genDeck) = 2 * PoolSize
    /\ genDeck[1].pairId # genDeck[2].pairId

----------------------------------------------------------------------------
(* The star rating as a function of the move and pair counts *)

(* setMoves(m => m + 1) of a second flip *)
StarsMove ==
    /\ moves < MaxStarMoves
    /\ moves' = moves + 1
    /\ UNCHANGED <<difficulty, pairs, deck, flipped, matches, seconds, running, locked,
                   focusedIndex, timers, kb, recorded, fresh>>
    /\ UNCHANGED <<serverVars, cacheVars, genVars, recVars>>

(* setPairs(p) and the restart that goes with it *)
StarsPairs(p) ==
    /\ pairs' = p
    /\ moves' = 0
    /\ UNCHANGED <<difficulty, deck, flipped, matches, seconds, running, locked,
                   focusedIndex, timers, kb, recorded, fresh>>
    /\ UNCHANGED <<serverVars, cacheVars, genVars, recVars>>

StarsInit ==
    /\ pairs \in 1 .. MaxStarPairs
    /\ moves = 0
    /\ difficulty = "medium" /\ deck = <<>> /\ flipped = <<>>
    /\ matches = 0 /\ seconds = 0 /\ running = FALSE /\ locked = FALSE
    /\ focusedIndex = Null /\ timers = <<>> /\ kb = <<>> /\ recorded = <<>> /\ fresh = FALSE
    /\ ServerIdle /\ CacheIdle /\ GenIdle /\ RecIdle

StarsNext ==
    \/ StarsMove
    \/ \E p \in 1 .. MaxStarPairs : StarsPairs(p)

StarsSpec == StarsInit /\ [][StarsNext]_vars

(* C11: the star rating of M moves and P pairs is 3 when M = 0 or
   5 * M <= 6 * P, 2 when otherwise M <= 2 * P, and 1 otherwise; so
   (0, P) -> 3, (10, 10) -> 3, (15, 10) -> 2, (25, 10) -> 1; and a move never
   raises the rating of a session. *)
C11_StarRating ==
    [][ LET Rating(m, p) == IF m = 0 \/ 5 * m <= 6 * p THEN 3 ELSE IF m <= 2 * p THEN 2 ELSE 1
        IN  /\ stars(moves, pairs) = Rating(moves, pairs)
            /\ stars(moves', pairs') = Rating(moves', pairs')
            /\ stars(0, pairs) = 3
            /\ stars(10, 10) = 3 /\ stars(15, 10) = 2 /\ stars(25, 10) = 1
            /\ StarsMove => stars(moves', pairs') <= stars(moves, pairs) ]_vars

(* 15 moves on 10 pairs: two stars *)
C11_Witness == moves = 15 /\ pairs = 10 /\ stars(moves, pairs) = 2

----------------------------------------------------------------------------
(* Properties of the local cache *)

(* the stored value is a serialized array of Score records *)
WellFormedCache ==
    /\ storage.present
    /\ ~JSONparse(storage.text).threw
    /\ JSONparse(storage.text).value.t = "array"
    /\ AllScores(JSONparse(storage.text).value.items)

(* C9: on a stored value that is absent, unparseable or otherwise not a
   serialized array of Scores, loadLeaderboard returns the empty array
   without failing, and saveScoreLocal does not fail. *)
C9_MalformedCacheIsEmpty ==
    [][ ~WellFormedCache =>
          /\ Load => (~out'.threw /\ out'.value = JArray(<<>>))
          /\ (\E k \in 1 .. Len(CacheScores) : Save(CacheScores[k])) => ~out'.threw ]_vars

(* the Scores the cache holds *)
CacheItems(st) == IF st.present THEN JSONparse(st.text).value.items ELSE <<>>

(* seconds ascending, then moves ascending *)
RankLeq(a, b) == a.seconds < b.seconds \/ (a.seconds = b.seconds /\ a.moves <= b.moves)

(* at most 20 Scores in ranking order *)
Ranked(items) ==
    /\ AllScores(items)
    /\ Len(items) <= 20
    /\ \A i \in 1 .. (Len(items) - 1) : RankLeq(items[i].score[1], items[i + 1].score[1])

(* absent, or a serialized array of at most 20 Scores in ranking order *)
ValidCache(st) ==
    \/ ~st.present
    \/ \E parsed \in {JSONparse(st.text)} :
          ~parsed.threw /\ parsed.value.t = "array" /\ Ranked(parsed.value.items)

(* C18: from an absent or valid cache, a local save leaves a valid cache (at
   most 20 Scores, by seconds then moves ascending) that holds the old
   entries and the saved Score less at most one entry, and an entry is left
   out only when the 20 entries kept are all better or equal; a clear leaves
   the cache absent. So the cache holds the 20 best of the Scores saved
   since the last clear. *)
C18_LocalCacheTop20 ==
    [][ ValidCache(storage) =>
          /\ \A k \in 1 .. Len(CacheScores) : Save(CacheScores[k]) =>
                \E all \in {Append(CacheItems(storage), JScore(CacheScores[k]))},
                   new \in {CacheItems(storage')} :
                    /\ ~out'.threw
                    /\ storage'.present /\ ValidCache(storage')
                    /\ Len(new) = (IF Len(all) < 20 THEN Len(all) ELSE 20)
                    /\ \A i \in 1 .. Len(all) :
                          \/ Count(all[i], new) = Count(all[i], all)
                          \/ /\ Count(all[i], new) = Count(all[i], all) - 1
                             /\ Len(new) = 20
                             /\ \A j \in 1 .. 20 : RankLeq(new[j].score[1], all[i].score[1])
          /\ Clear => ~storage'.present ]_vars

(* the worst Score was saved to a cache of 20 better ones, and was left out *)
C18_Witness ==
    /\ out.op = "save" /\ out.arg = <<CacheScores[3]>> /\ ~out.threw
    /\ \E items \in {CacheItems(storage)} :
          Len(items) = 20 /\ \A i \in 1 .. 20 : items[i] # JScore(CacheScores[3])

----------------------------------------------------------------------------
(* Properties of the Score Recorder *)

CompletedStep == \E k \in 1 .. Len(CacheScores) : Completed(CacheScores[k])

(* C12, as stated: when the leaderboard fetch fails the leaderboard on display
   is the local cache, and (the player not having cleared it since) it holds
   the Score just recorded; when the fetch succeeds it is the server's
   response; and neither the callback nor the handler of a failed submission
   throws. *)
C12_FallbackHoldsRecordedScore ==
    [][ /\ FetchFailed =>
              /\ leaderboard' = loadLeaderboard.value
              /\ out.op # "clear" => Includes(leaderboard'.items, JScore(fetch.score[1]))
        /\ FetchResolved => leaderboard' = AsScores(fetch.rows)
        /\ (CompletedStep \/ SubmitFailed) => ~out'.threw ]_vars

(* C12, amended: when the leaderboard fetch fails the leaderboard on display
   is the local cache as it stands then, which holds the Score just recorded
   unless it holds 20 Scores that are all better or equal, or was cleared
   since; when the fetch succeeds it is the server's response; and neither
   the callback nor the handler of a failed submission throws. *)
C12_FallbackShowsLocalCache ==
    [][ /\ FetchFailed =>
              /\ leaderboard' = loadLeaderboard.value
              /\ \E items \in {leaderboard'.items} :
                    \/ Includes(items, JScore(fetch.score[1]))
                    \/ /\ Len(items) = 20
                       /\ \A j \in 1 .. 20 : RankLeq(items[j].score[1], fetch.score[1])
                    \/ out.op = "clear"
        /\ FetchResolved => leaderboard' = AsScores(fetch.rows)
        /\ (CompletedStep \/ SubmitFailed) => ~out'.threw ]_vars

(* submission and fetch both failed, and the local cache with the session's
   Score is on display *)
C12_Witness ==
    /\ fetch.state = "failed" /\ submit.state = "failed"
    /\ leaderboard = loadLeaderboard.value
    /\ Includes(leaderboard.items, JScore(fetch.score[1]))

(* the row of the scores table a Score was stored as *)
RowOf(sc, r) ==
    r.name = sc.name /\ r.seconds = sc.seconds /\ r.moves = sc.moves /\ r.difficulty = sc.difficulty

(* C14: the leaderboard request is sent only when the submission has
   finished (done or failed), and a fetch that succeeds after the submission
   succeeded returns the row of the submitted Score. *)
C14_FetchAfterSubmit ==
    [][ /\ (fetch'.state = "sent" /\ fetch.state # "sent") => submit'.state \in {"done", "failed"}
        /\ (FetchResolved /\ submit.state = "done") =>
              \E i \in 1 .. Len(fetch.rows) : RowOf(fetch.score[1], fetch.rows[i]) ]_vars

(* C20: a completed session puts its Score into the local cache once (a
   cache of 20 may leave it out), and the failure of its submission does not
   put it there again. *)
C20_LocalSaveOnce ==
    [][ /\ \A k \in 1 .. Len(CacheScores) : Completed(CacheScores[k]) =>
              \E old \in {CacheItems(storage)}, new \in {CacheItems(storage')} :
                  \/ Count(JScore(CacheScores[k]), new) = Count(JScore(CacheScores[k]), old) + 1
                  \/ Len(new) = 20
        /\ SubmitFailed => CacheItems(storage') = CacheItems(storage) ]_vars

----------------------------------------------------------------------------
(* Properties of the game *)

FlipRequest(i) == ClickCard(i) \/ (KeyEnter /\ focusedIndex = <<i>>)

RestartStep == ClickRestart \/ \E d \in Difficulty : SelectDifficulty(d)

ScoreRecorded == Len(recorded') = Len(recorded) + 1

(* C1: a flip request, by click or by keyboard, on a card that is matched, or
   that is the sole flipped card, or made while input is locked, changes
   neither the deck, the flipped set, the move, match and seconds counters,
   the running flag, the locked flag, nor the pending resolution delays. *)
C1_FlipNoOp ==
    [][ \A i \in 0 .. (Len(deck) - 1) :
          (FlipRequest(i) /\ (At(deck, i).matched \/ flipped = <<At(deck, i).id>> \/ locked))
            => UNCHANGED <<deck, flipped, moves, matches, seconds, running, locked, timers>> ]_vars

(* C2: the move counter changes only by a restart, which sets it to 0, or by
   the reveal of a second card (the flipped set grows from one card to two),
   which adds exactly 1 to it; and every such reveal adds 1. *)
C2_MovePerSecondReveal ==
    [][ /\ moves' # moves =>
              \/ RestartStep /\ moves' = 0
              \/ Len(flipped) = 1 /\ Len(flipped') = 2 /\ moves' = moves + 1
        /\ (Len(flipped) = 1 /\ Len(flipped') = 2) => moves' = moves + 1 ]_vars

(* C3: the match counter equals the pair count exactly when every card of the
   deck is matched. *)
C3_CompleteIffAllMatched == (matches = pairs) <=> allMatched(deck)

(* C4: from a restart until the player next flips a card, no card is matched,
   the flipped set is empty, the match and move counters are 0, input is
   unlocked and no score has been recorded: no resolution delay scheduled
   before the restart takes effect. *)
C4_RestartDiscardsTimers ==
    fresh =>
        /\ \A i \in 1 .. Len(deck) : ~deck[i].matched
        /\ flipped = <<>>
        /\ matches = 0
        /\ moves = 0
        /\ ~locked
        /\ recorded = <<>>

(* C5: a score is recorded in exactly the steps in which the deck becomes
   fully matched (so once per completed session, and never while a card of
   the deck is unmatched), and that step leaves the running flag false. *)
C5_ScoreOncePerCompletion ==
    [][ /\ ScoreRecorded <=> (~allMatched(deck) /\ allMatched(deck'))
        /\ ScoreRecorded => ~running' ]_vars

(* C13: at most one flip-resolution delay is pending at any time, and while
   one is pending input is locked, so that no other can be scheduled. *)
C13_OneResolutionPending ==
    /\ Len(timers) <= 1
    /\ Len(timers) = 1 => locked

(* C15: the Score recorded on completion holds the elapsed seconds and the
   move count (the final move included) as they stand in the step that
   applies the last match. *)
C15_ScoreCarriesSessionValues ==
    [][ ScoreRecorded =>
          /\ recorded'[Len(recorded')].seconds = seconds'
          /\ recorded'[Len(recorded')].moves = moves' ]_vars

(* C16: the flipped set holds at most two card ids, pairwise distinct, each
   of an unmatched card of the current deck, and it holds two exactly when
   input is locked. *)
C16_FlippedSet ==
    /\ Len(flipped) <= 2
    /\ \A i, j \in 1 .. Len(flipped) : i # j => flipped[i] # flipped[j]
    /\ \A i \in 1 .. Len(flipped) : HasCard(deck, flipped[i]) /\ ~Find(deck, flipped[i]).matched
    /\ (Len(flipped) = 2) <=> locked

(* C17: elapsed seconds grows only in a step taken while running; and while
   every card is matched the running flag is false and elapsed seconds
   changes only by a restart. *)
C17_TimerStopsOnCompletion ==
    [][ /\ seconds' > seconds => running
        /\ allMatched(deck) => (~running /\ (seconds' # seconds => RestartStep))
        /\ allMatched(deck') => ~running' ]_vars

MismatchStep == \E k \in 1 .. Len(timers) : MismatchTimeout(k)

(* C19: a mismatch resolution empties the flipped set and releases the input
   lock and leaves the deck (every matched flag), the match counter, the move
   counter, the elapsed seconds and the running flag unchanged; and in every
   step that is not a restart a matched card stays matched. *)
C19_MismatchFrame ==
    [][ /\ \/ flipped' = <<>> /\ ~locked' /\ UNCHANGED <<deck, matches, moves, seconds, running>>
           \/ ~MismatchStep
        /\ \/ Len(deck') = Len(deck) /\ \A i \in 1 .. Len(deck) : deck[i].matched => deck'[i].matched
           \/ RestartStep ]_vars

(* a session whose one move was a mismatch that has been resolved *)
C19_Witness ==
    /\ moves = 1 /\ matches = 0 /\ timers = <<>> /\ flipped = <<>> /\ ~locked /\ running
    /\ \A i \in 1 .. Len(deck) : ~deck[i].matched

====
